---- MODULE Spec2Model ----
(***************************************************************************)
(* Model of bimap.h: a bijective map kept as two splay trees (one ordered  *)
(* by the Left value, one by the Right value) built over the same records. *)
(* Records are heap cells 1..NumNodes, 0 is nullptr.  Left and Right are   *)
(* instantiated with small integer ranges whose default-constructed value  *)
(* is 0, and both comparators are std::less.  What a call returns is the   *)
(* ret field of the operator that models it; the state is the memory.      *)
(***************************************************************************)
EXTENDS Integers, Sequences, FiniteSets, TLC

MaxLeft == 3
MaxRight == 3
MaxCopied == 2
MaxCells == 3
MaxAssigned == 1
MaxMoved == 1

LeftVals == 0..MaxLeft
RightVals == 0..MaxRight

Null == 0
DefaultLeft == 0
DefaultRight == 0

Containers == {"A", "B"}

(* Heap cells.  The program never looks at an address except to compare    *)
(* two of them, so a cell stands for a record rather than for a number a   *)
(* build would print: the model gives every container its own run of       *)
(* cells and numbers a cell after the Left value its record is             *)
(* constructed with, as long as that cell is free.  Which address new      *)
(* returns shows only where a pointer that is the address of no record is  *)
(* kept (the right_root a move-constructed object never initialises): new  *)
(* may hand that address out again or not, and both outcomes are steps of  *)
(* the call (CommitNew).                                                   *)
NumNodes == 2 * (MaxLeft + 1)
Nodes == 1..NumNodes
Ptrs == 0..NumNodes
cell(c, l) == (IF c = "A" THEN 0 ELSE MaxLeft + 1) + l + 1
Descriptors == {"left", "right"}

VARIABLES
    heap,             \* records allocated by new and not yet deleted
    left_value,       \* node_t::left_value
    right_value,      \* node_t::right_value
    left_tree_data,   \* node_t::left_tree_data  (left, right, parent)
    right_tree_data,  \* node_t::right_tree_data (left, right, parent)
    bm                \* the bimap objects: left_root, right_root, elements_count

vars == <<heap, left_value, right_value, left_tree_data, right_tree_data, bm>>

-----------------------------------------------------------------------------
(* node_t::tree_node_t for every heap cell: three pointer fields.          *)
tree_node_t == [left |-> [n \in Nodes |-> Null],
                right |-> [n \in Nodes |-> Null],
                parent |-> [n \in Nodes |-> Null]]

left_compare(a, b) == a < b
right_compare(a, b) == a < b
compare(d, a, b) == IF d = "left" THEN left_compare(a, b) ELSE right_compare(a, b)

flip_descriptor(d) == IF d = "left" THEN "right" ELSE "left"

-----------------------------------------------------------------------------
(* The splay-tree engine.  t is one side's linkage (a tree_node_t per      *)
(* cell), v that side's value of every cell, d names the side.             *)

set_parent(t, n, p) == IF n # Null THEN [t EXCEPT !.parent[n] = p] ELSE t

(* rotate_left that leaves the parent link of the subtree it moves from x  *)
(* to p untouched                                                          *)
rotate_left_stale_parent(t, x, p) ==
    LET q  == t.parent[p]
        t1 == IF q # Null
              THEN IF t.left[q] = p THEN [t EXCEPT !.left[q] = x]
                                    ELSE [t EXCEPT !.right[q] = x]
              ELSE t
        t2 == [t1 EXCEPT !.parent[x] = t1.parent[p]]
        t3 == [t2 EXCEPT !.parent[p] = x]
        t4 == [t3 EXCEPT !.right[p] = t3.left[x]]
    IN [t4 EXCEPT !.left[x] = p]

rotate_left(t, x, p) ==
    LET q  == t.parent[p]
        t1 == IF q # Null
              THEN IF t.left[q] = p THEN [t EXCEPT !.left[q] = x]
                                    ELSE [t EXCEPT !.right[q] = x]
              ELSE t
        t2 == [t1 EXCEPT !.parent[x] = t1.parent[p]]
        t3 == [t2 EXCEPT !.parent[p] = x]
        t4 == [t3 EXCEPT !.right[p] = t3.left[x]]
        t5 == set_parent(t4, t4.left[x], p)
    IN [t5 EXCEPT !.left[x] = p]

rotate_right(t, x, p) ==
    LET q  == t.parent[p]
        t1 == IF q # Null
              THEN IF t.left[q] = p THEN [t EXCEPT !.left[q] = x]
                                    ELSE [t EXCEPT !.right[q] = x]
              ELSE t
        t2 == [t1 EXCEPT !.parent[x] = t1.parent[p]]
        t3 == [t2 EXCEPT !.parent[p] = x]
        t4 == [t3 EXCEPT !.left[p] = t3.right[x]]
        t5 == set_parent(t4, t4.right[x], p)
    IN [t5 EXCEPT !.right[x] = p]

RECURSIVE splay_loop(_, _)
splay_loop(t, n) ==
    IF t.parent[n] = Null THEN t
    ELSE LET p == t.parent[n] IN
         IF t.parent[p] = Null
         THEN IF n = t.right[p] THEN splay_loop(rotate_left(t, n, p), n)
                                ELSE splay_loop(rotate_right(t, n, p), n)
         ELSE LET g == t.parent[p] IN
              IF t.left[g] = p /\ t.left[p] = n
              THEN splay_loop(rotate_right(rotate_right(t, p, g), n, p), n)
              ELSE IF t.right[g] = p /\ t.right[p] = n
              THEN splay_loop(rotate_left(rotate_left(t, p, g), n, p), n)
              ELSE IF t.left[g] = p /\ t.right[p] = n
              THEN splay_loop(rotate_right(rotate_left(t, n, p), n, g), n)
              ELSE splay_loop(rotate_left(rotate_right(t, n, p), n, g), n)

(* splay returns its argument node; the model returns the new linkage.     *)
splay(t, n) == IF n = Null THEN t ELSE splay_loop(t, n)

RECURSIVE sink_left(_, _)
sink_left(t, n) == IF t.left[n] # Null THEN sink_left(t, t.left[n]) ELSE n

RECURSIVE sink_right(_, _)
sink_right(t, n) == IF t.right[n] # Null THEN sink_right(t, t.right[n]) ELSE n

(* find that returns the record it stopped at without splaying it *)
RECURSIVE find_no_splay(_, _, _, _, _)
find_no_splay(d, t, v, n, x) ==
    IF n = Null THEN [node |-> Null, tree |-> t]
    ELSE IF compare(d, x, v[n]) /\ t.left[n] # Null
    THEN find_no_splay(d, t, v, t.left[n], x)
    ELSE IF compare(d, v[n], x) /\ t.right[n] # Null
    THEN find_no_splay(d, t, v, t.right[n], x)
    ELSE [node |-> n, tree |-> t]

(* find that never descends into a right subtree *)
RECURSIVE find_never_right(_, _, _, _, _)
find_never_right(d, t, v, n, x) ==
    IF n = Null THEN [node |-> Null, tree |-> t]
    ELSE IF compare(d, x, v[n]) /\ t.left[n] # Null
    THEN find_never_right(d, t, v, t.left[n], x)
    ELSE [node |-> n, tree |-> splay(t, n)]

RECURSIVE find(_, _, _, _, _)
find(d, t, v, n, x) ==
    IF n = Null THEN [node |-> Null, tree |-> t]
    ELSE IF compare(d, x, v[n]) /\ t.left[n] # Null
    THEN find(d, t, v, t.left[n], x)
    ELSE IF compare(d, v[n], x) /\ t.right[n] # Null
    THEN find(d, t, v, t.right[n], x)
    ELSE [node |-> n, tree |-> splay(t, n)]

(* split after the find: f is what find returned (the node now at the     *)
(* root, and the linkage)                                                  *)
split_at(d, v, x, f) ==
    IF ~compare(d, x, v[f.node])
    THEN [first |-> f.node, second |-> f.tree.right[f.node],
          tree |-> [set_parent(f.tree, f.tree.right[f.node], Null)
                      EXCEPT !.right[f.node] = Null]]
    ELSE [first |-> f.tree.left[f.node], second |-> f.node,
          tree |-> [set_parent(f.tree, f.tree.left[f.node], Null)
                      EXCEPT !.left[f.node] = Null]]

split(d, t, v, root, x) ==
    IF root = Null THEN [first |-> Null, second |-> Null, tree |-> t]
    ELSE split_at(d, v, x, find(d, t, v, root, x))

(* merge that returns the splayed b without hanging a under it *)
merge_drops_a(a, f) == [node |-> f.node, tree |-> f.tree]

(* merge after the find in b: Descriptor::left(b) = a; set_parent(a, b)    *)
merge_at(a, f) ==
    [node |-> f.node,
     tree |-> set_parent([f.tree EXCEPT !.left[f.node] = a], a, f.node)]

merge(d, t, v, a, b) ==
    IF a = Null THEN [node |-> b, tree |-> t]
    ELSE IF b = Null THEN [node |-> a, tree |-> t]
    ELSE merge_at(a, find(d, t, v, b, v[a]))

(* insert that hangs the first half of the split on both sides of the new *)
(* root                                                                    *)
insert_first_twice(new_node, p) ==
    [root |-> new_node,
     tree |-> set_parent([p.tree EXCEPT !.left[new_node] = p.first,
                                        !.right[new_node] = p.first],
                         p.first, new_node)]

(* insert after the split: p is the pair split returned                    *)
insert_at(new_node, p) ==
    [root |-> new_node,
     tree |-> set_parent(set_parent([p.tree EXCEPT !.left[new_node] = p.first,
                                                   !.right[new_node] = p.second],
                                    p.first, new_node),
                         p.second, new_node)]

(* insert<Descriptor>(root, new_node, compare) *)
insert(d, t, v, root, new_node) ==
    insert_at(new_node, split(d, t, v, root, v[new_node]))

(* erase after the merge: root = new_root; return result                   *)
erase_at(root, m) == [root |-> m.node, result |-> root, tree |-> m.tree]

(* erase<Descriptor>(root, compare) *)
erase(d, t, v, root) ==
    LET t2 == set_parent(set_parent(t, t.left[root], Null), t.right[root], Null)
    IN erase_at(root, merge(d, t2, v, t2.left[root], t2.right[root]))

RECURSIVE next_up(_, _)
next_up(t, n) ==
    IF t.parent[n] = Null THEN Null
    ELSE IF t.left[t.parent[n]] = n THEN t.parent[n]
    ELSE next_up(t, t.parent[n])

(* next that stops at the right child instead of sinking to its leftmost  *)
(* descendant                                                              *)
next_no_sink(t, n) ==
    IF t.right[n] # Null THEN t.right[n] ELSE next_up(t, n)

next(t, n) ==
    IF t.right[n] # Null THEN sink_left(t, t.right[n]) ELSE next_up(t, n)

(* minimum that splays the node it is given without sinking left first *)
minimum_no_sink(t, n) == [node |-> n, tree |-> splay(t, n)]

(* minimum<Descriptor>(node): the node returned and the new linkage.       *)
minimum(t, n) ==
    LET m == sink_left(t, n) IN [node |-> m, tree |-> splay(t, m)]

-----------------------------------------------------------------------------
(* The dual-tree coordinator.  s is the memory (heap cells and their       *)
(* fields) together with the members of the bimap the call is made on.     *)

State(c) == [this |-> c,
             heap |-> heap,
             left_value |-> left_value,
             right_value |-> right_value,
             left_tree_data |-> left_tree_data,
             right_tree_data |-> right_tree_data,
             left_root |-> bm[c].left_root,
             right_root |-> bm[c].right_root,
             elements_count |-> bm[c].elements_count]

Tree(s, d) == IF d = "left" THEN s.left_tree_data ELSE s.right_tree_data
Value(s, d) == IF d = "left" THEN s.left_value ELSE s.right_value
Root(s, d) == IF d = "left" THEN s.left_root ELSE s.right_root

SetTreeRoot(s, d, t, r) ==
    IF d = "left" THEN [s EXCEPT !.left_tree_data = t, !.left_root = r]
                  ELSE [s EXCEPT !.right_tree_data = t, !.right_root = r]

(* size_t elements_count: an unsigned 64-bit counter.  The model holds the *)
(* counter as the integer congruent to it modulo 2^64 that lies nearest    *)
(* to zero, so that ++ and -- are +1 and -1 and -1 is the counter          *)
(* 2^64 - 1 that --elements_count leaves in a counter of 0.                *)
(* a < b between two size_t: a counter held as a negative integer is      *)
(* above every counter held as a natural.                                  *)
size_t_less(a, b) == IF (a < 0) = (b < 0) THEN a < b ELSE b < 0

(* the last width decimal digits of the natural n, zeros included *)
RECURSIVE digits(_, _)
digits(n, width) ==
    IF width = 0 THEN "" ELSE digits(n \div 10, width - 1) \o ToString(n % 10)

(* 2^64 + x for a negative x, in three groups of digits: 2^64 is           *)
(* 18446744 073 709551616, and borrow is what the last group takes from    *)
(* the middle one                                                          *)
size_t_digits(low, borrow) ==
    "18446744" \o digits(73 - borrow, 3) \o digits(low, 9)

(* the decimal digits of a size_t, as size() shows it *)
size_t_decimal(x) ==
    IF x >= 0 THEN ToString(x)
    ELSE IF 709551616 + x >= 0 THEN size_t_digits(709551616 + x, 0)
    ELSE IF 1709551616 + x >= 0 THEN size_t_digits(1709551616 + x, 1)
    ELSE size_t_digits(1000000000 + (1709551616 + x), 2)

(* the cell new returns: the one numbered after the container and the      *)
(* Left value when it is free, else the lowest free cell                   *)
free_cell(s, l) ==
    IF cell(s.this, l) \notin s.heap THEN cell(s.this, l)
    ELSE CHOOSE n \in Nodes \ s.heap : \A m \in Nodes \ s.heap : n <= m

(* new node_t(left, right): a free cell, links null.                      *)
new_node_t(s, l, r) ==
    LET n == free_cell(s, l)
    IN [node |-> n,
        s |-> [s EXCEPT !.heap = @ \cup {n},
                        !.left_value[n] = l,
                        !.right_value[n] = r]]

(* delete node: the cell leaves the heap; what it held is unobservable     *)
(* afterwards and is cleared.                                              *)
delete_node(s, n) ==
    [s EXCEPT !.heap = @ \ {n},
              !.left_value[n] = 0,
              !.right_value[n] = 0,
              !.left_tree_data = [left |-> [@.left EXCEPT ![n] = Null],
                                  right |-> [@.right EXCEPT ![n] = Null],
                                  parent |-> [@.parent EXCEPT ![n] = Null]],
              !.right_tree_data = [left |-> [@.left EXCEPT ![n] = Null],
                                   right |-> [@.right EXCEPT ![n] = Null],
                                   parent |-> [@.parent EXCEPT ![n] = Null]]]

(* root = find<Descriptor>(root, x, compare): every caller but            *)
(* find_element assigns unconditionally; find returns null only for a null *)
(* root, so find_element's guarded assignment is the same.                 *)
set_found(s, d, f) == SetTreeRoot(s, d, f.tree, f.node)
find_root(s, d, x) ==
    set_found(s, d, find(d, Tree(s, d), Value(s, d), Root(s, d), x))

(* root = splay<Descriptor>(n) *)
splay_root(s, d, n) == SetTreeRoot(s, d, splay(Tree(s, d), n), n)

(* the insert test with "or" between the two sides: one absent value is    *)
(* enough to insert                                                        *)
insert_condition_either(s, l, r) ==
    \/ (s.left_root = Null \/ ~(s.left_value[s.left_root] = l))
    \/ (s.right_root = Null \/ ~(s.right_value[s.right_root] = r))

(* the insert test that looks at the Left side only *)
insert_condition_left_only(s, l, r) ==
    s.left_root = Null \/ ~(s.left_value[s.left_root] = l)

insert_condition(s, l, r) ==
    /\ (s.left_root = Null \/ ~(s.left_value[s.left_root] = l))
    /\ (s.right_root = Null \/ ~(s.right_value[s.right_root] = r))

(* insert<descriptor>(root, new_node, compare) on the container's root     *)
set_inserted(s, d, i) == SetTreeRoot(s, d, i.tree, i.root)
insert_root(s, d, new_node) ==
    set_inserted(s, d, insert(d, Tree(s, d), Value(s, d), Root(s, d), new_node))

(* ++elements_count; return left_root *)
insert_done(s) ==
    [s |-> [s EXCEPT !.elements_count = @ + 1], ret |-> s.left_root]

(* the body of insert_by_values' if: a is the new record and the memory    *)
(* holding it                                                              *)
insert_new(a) ==
    insert_done(insert_root(insert_root(a.s, "left", a.node), "right", a.node))

(* insert_by_values after the two finds *)
insert_checked(s, l, r) ==
    IF insert_condition(s, l, r)
    THEN insert_new(new_node_t(s, l, r))
    ELSE [s |-> s, ret |-> Null]

insert_by_values(s, l, r) ==
    insert_checked(find_root(find_root(s, "left", l), "right", r), l, r)

(* erase<descriptor>(root, compare) on the container's root *)
set_erased(s, d, e) == SetTreeRoot(s, d, e.tree, e.root)
erase_side(s, d) ==
    set_erased(s, d, erase(d, Tree(s, d), Value(s, d), Root(s, d)))

(* the end of erase_root that deletes the record now at the Left root (if *)
(* there is one) instead of the record taken out                          *)
erase_done_frees_root(s, excess) ==
    [delete_node(s, IF s.left_root # Null THEN s.left_root ELSE excess)
       EXCEPT !.elements_count = @ - 1]

(* the end of erase_root without the delete *)
erase_done_no_delete(s, excess) == [s EXCEPT !.elements_count = @ - 1]

(* delete excess; --elements_count (a counter of 0 becomes 2^64 - 1, held  *)
(* as -1)                                                                  *)
erase_done(s, excess) ==
    [delete_node(s, excess) EXCEPT !.elements_count = @ - 1]

(* erase_root that detaches the record from the first tree only *)
erase_root_first_only(s, d1, d2) ==
    erase_done(erase_side(s, d1), Root(s, d1))

(* excess is what erase<FirstDescriptor> returns: the first root *)
erase_root(s, d1, d2) ==
    erase_done(erase_side(erase_side(s, d1), d2), Root(s, d1))

(* erase_element that erases the record find stopped at, whatever its value *)
erase_if_any(s, d1, d2, key) ==
    IF Root(s, d1) # Null THEN erase_root(s, d1, d2) ELSE s

(* erase_element after the find and the splay *)
erase_if_found(s, d1, d2, key) ==
    IF Root(s, d1) # Null /\ Value(s, d1)[Root(s, d1)] = key
    THEN erase_root(s, d1, d2)
    ELSE s

(* erase_element without the splay in the second tree *)
splay_second_skipped(s, d1, d2) == s

(* second_root = splay<SecondDescriptor>(first_root) *)
splay_second(s, d1, d2) == splay_root(s, d2, Root(s, d1))

erase_element(s, d1, d2, key) ==
    erase_if_found(splay_second(find_root(s, d1, key), d1, d2), d1, d2, key)

(* find_element after the find *)
find_result(s, d, desired) ==
    IF Root(s, d) # Null /\ Value(s, d)[Root(s, d)] = desired
    THEN [s |-> s, ret |-> Root(s, d)]
    ELSE [s |-> s, ret |-> Null]

find_element(s, d, desired) == find_result(find_root(s, d, desired), d, desired)

(* the root moved to the minimum without the splay that brings it up *)
set_minimum_unsplayed(s, d, m) ==
    [s |-> SetTreeRoot(s, d, Tree(s, d), m.node), ret |-> m.node]

(* root = minimum<Descriptor>(Descriptor::right(root)); return root *)
set_minimum(s, d, m) == [s |-> SetTreeRoot(s, d, m.tree, m.node), ret |-> m.node]

(* lower_bound after the find *)
lower_bound_at(s, d, x) ==
    IF Root(s, d) # Null
    THEN IF ~compare(d, Value(s, d)[Root(s, d)], x)
         THEN [s |-> s, ret |-> Root(s, d)]
         ELSE IF Tree(s, d).right[Root(s, d)] # Null
         THEN set_minimum(s, d, minimum(Tree(s, d), Tree(s, d).right[Root(s, d)]))
         ELSE [s |-> s, ret |-> Null]
    ELSE [s |-> s, ret |-> Null]

lower_bound(s, d, x) == lower_bound_at(find_root(s, d, x), d, x)

(* upper_bound after the find *)
upper_bound_at(s, d, x) ==
    IF Root(s, d) # Null
    THEN IF compare(d, x, Value(s, d)[Root(s, d)])
         THEN [s |-> s, ret |-> Root(s, d)]
         ELSE IF Tree(s, d).right[Root(s, d)] # Null
         THEN set_minimum(s, d, minimum(Tree(s, d), Tree(s, d).right[Root(s, d)]))
         ELSE [s |-> s, ret |-> Null]
    ELSE [s |-> s, ret |-> Null]

upper_bound(s, d, x) == upper_bound_at(find_root(s, d, x), d, x)

(* at_element that throws on an empty tree only *)
at_result_null_only(s, d1, d2, key) ==
    IF Root(s, d1) = Null
    THEN [s |-> s, ret |-> 0, threw |-> TRUE]
    ELSE [s |-> s, ret |-> Value(s, d2)[Root(s, d1)], threw |-> FALSE]

(* at_element that returns the value of the side it searched *)
at_result_same_side(s, d1, d2, key) ==
    IF Root(s, d1) = Null \/ ~(Value(s, d1)[Root(s, d1)] = key)
    THEN [s |-> s, ret |-> 0, threw |-> TRUE]
    ELSE [s |-> s, ret |-> Value(s, d1)[Root(s, d1)], threw |-> FALSE]

(* at_element after the find: ret is the opposite-side value; threw is     *)
(* std::out_of_range.                                                      *)
at_result(s, d1, d2, key) ==
    IF Root(s, d1) = Null \/ ~(Value(s, d1)[Root(s, d1)] = key)
    THEN [s |-> s, ret |-> 0, threw |-> TRUE]
    ELSE [s |-> s, ret |-> Value(s, d2)[Root(s, d1)], threw |-> FALSE]

at_element(s, d1, d2, key) == at_result(find_root(s, d1, key), d1, d2, key)

(* insert_function of at_left_or_default / at_right_or_default.            *)
insert_function(s, d1, key) ==
    IF d1 = "left" THEN insert_by_values(s, key, DefaultRight).s
                   ELSE insert_by_values(s, DefaultLeft, key).s

default_value(d) == IF d = "left" THEN DefaultLeft ELSE DefaultRight

(* return SecondDescriptor::value(second_root) *)
default_result(s, d2) == [s |-> s, ret |-> Value(s, d2)[Root(s, d2)]]

(* at_element_or_default that inserts without erasing the holder of the   *)
(* default value first                                                     *)
at_or_default_no_erase(s, d1, d2, key) ==
    IF Root(s, d1) # Null /\ Value(s, d1)[Root(s, d1)] = key
    THEN [s |-> s, ret |-> Value(s, d2)[Root(s, d1)]]
    ELSE default_result(insert_function(s, d1, key), d2)

(* the record the insert_function of at_left_or_default /                  *)
(* at_right_or_default gets from new, null when its insert is rejected     *)
new_by_insert_function(s, d1, key) ==
    IF d1 = "left" THEN insert_by_values(s, key, DefaultRight).ret
                   ELSE insert_by_values(s, DefaultLeft, key).ret

(* the record at_element_or_default gets from new, null when the key is    *)
(* found: after the find, and for the whole call                           *)
at_or_default_new_at(s, d1, d2, key) ==
    IF Root(s, d1) # Null /\ Value(s, d1)[Root(s, d1)] = key
    THEN Null
    ELSE new_by_insert_function(erase_element(s, d2, d1, default_value(d2)), d1, key)

at_or_default_new(s, d1, d2, key) ==
    at_or_default_new_at(find_root(s, d1, key), d1, d2, key)

(* at_element_or_default after the find *)
at_or_default_at(s, d1, d2, key) ==
    IF Root(s, d1) # Null /\ Value(s, d1)[Root(s, d1)] = key
    THEN [s |-> s, ret |-> Value(s, d2)[Root(s, d1)]]
    ELSE default_result(
             insert_function(erase_element(s, d2, d1, default_value(d2)), d1, key),
             d2)

at_element_or_default(s, d1, d2, key) ==
    at_or_default_at(find_root(s, d1, key), d1, d2, key)

(* return iterator(this, root) *)
erase_iterator_result(s, d) == [s |-> s, ret |-> Root(s, d)]

(* erase_left(it) / erase_right(it): d is the side of the cursor.          *)
erase_iterator(s, d, n) ==
    erase_iterator_result(
        erase_root(splay_root(splay_root(s, "left", n), "right", n),
                   d, flip_descriptor(d)),
        d)

(* range erase with "if" for "while": erases the first record only *)
erase_range_once(s, d, first, last) ==
    IF first # last
    THEN [s |-> erase_iterator(s, d, first).s, ret |-> last]
    ELSE [s |-> s, ret |-> last]

(* erase_left(first, last) / erase_right(first, last) *)
RECURSIVE erase_range(_, _, _, _)
erase_range(s, d, first, last) ==
    IF first # last
    THEN erase_range(erase_iterator(s, d, first).s, d, next(Tree(s, d), first), last)
    ELSE [s |-> s, ret |-> last]

(* return (elements_count < previous_elements_count) *)
erase_key_result(s, previous_elements_count) ==
    [s |-> s, ret |-> size_t_less(s.elements_count, previous_elements_count)]

(* erase_left(key) / erase_right(key): d is the side of the key.           *)
erase_key(s, d, key) ==
    erase_key_result(erase_element(s, d, flip_descriptor(d), key), s.elements_count)

(* basic_iterator<MainDescriptor, ...>(tree, node): d is MainDescriptor,   *)
(* which is part of the cursor's type.                                     *)
basic_iterator(c, d, n) == [tree |-> c, main |-> d, node |-> n]

(* basic_iterator::flip: same tree and node, descriptors exchanged *)
flip(it) == basic_iterator(it.tree, flip_descriptor(it.main), it.node)

(* basic_iterator::operator==, between cursors of one type *)
iterator_equal(a, b) == a.main = b.main /\ a.tree = b.tree /\ a.node = b.node

(* basic_iterator::decrement on the end cursor (node == nullptr).          *)
decrement_end(s, d) == sink_right(Tree(s, d), s.left_root)

(* sink_left(t) as called by begin_left() / begin_right(): with t null     *)
(* its loop condition reads Descriptor::left of a null record, which is    *)
(* undefined: the call may fault, or go on with whatever it read and       *)
(* return any pointer                                                      *)
sink_left_outcomes(t, n) ==
    IF n = Null
    THEN {[null_dereference |-> TRUE, fault |-> TRUE, node |-> Null]}
           \cup {[null_dereference |-> TRUE, fault |-> FALSE, node |-> p] : p \in Ptrs}
    ELSE {[null_dereference |-> FALSE, fault |-> FALSE, node |-> sink_left(t, n)]}

(* what begin_left() / begin_right() can do on any container *)
begin_outcomes(s, d) == sink_left_outcomes(Tree(s, d), Root(s, d))

(* begin_left() / begin_right() of a container that holds a record *)
begin(s, d) == sink_left(Tree(s, d), Root(s, d))

(* bimap(bimap && other): left_root is assigned twice, the second time     *)
(* from the source's root that the first transfer has already nulled;      *)
(* right_root is never written on either object, so the new object's       *)
(* right_root holds whatever value garbage the storage had.                *)
move_constructor(other, garbage) ==
    LET this1  == [left_root |-> other.left_root, right_root |-> garbage,
                   elements_count |-> 0, constructed |-> TRUE]
        other1 == [other EXCEPT !.left_root = Null]
        this2  == [this1 EXCEPT !.left_root = other1.left_root]
        other2 == [other1 EXCEPT !.left_root = Null]
        this3  == [this2 EXCEPT !.elements_count = other2.elements_count]
        other3 == [other2 EXCEPT !.elements_count = 0]
    IN [this |-> this3, other |-> other3]

(* the body of the copy constructor's loop for one element (left, right)  *)
(* of the source: two finds, new node_t, two inserts                       *)
copy_insert(a) == insert_root(insert_root(a.s, "left", a.node), "right", a.node)
copy_element(s, l, r) ==
    copy_insert(new_node_t(find_root(find_root(s, "left", l), "right", r), l, r))

(* for (it = other.begin_left(); it != other.end_left(); ++it): the        *)
(* source's records are in the same memory s and are only read             *)
RECURSIVE copy_loop(_, _)
copy_loop(s, it) ==
    IF it = Null THEN s
    ELSE copy_loop(copy_element(s, s.left_value[it], s.right_value[it]),
                   next(s.left_tree_data, it))

(* a copy that takes over the source's two roots instead of building its   *)
(* own records                                                             *)
copy_constructor_shallow(c, other) == [other EXCEPT !.this = c]

(* bimap(bimap const & other), constructing container c: other is a        *)
(* container that holds a record (begin_left() of an empty one reads       *)
(* through a null pointer)                                                 *)
copy_constructor(c, other) ==
    copy_loop([other EXCEPT !.this = c, !.left_root = Null, !.right_root = Null],
              begin(other, "left"))

(* operator== after the size test: first and second advance together      *)
(* until first is end_left()                                               *)
(* the loop of an operator== that compares the Right values as well *)
RECURSIVE equal_loop_pairs(_, _, _, _)
equal_loop_pairs(s, other, first, second) ==
    IF first = Null THEN TRUE
    ELSE IF s.left_value[first] # other.left_value[second] THEN FALSE
    ELSE IF s.right_value[first] # other.right_value[second] THEN FALSE
    ELSE equal_loop_pairs(s, other, next(s.left_tree_data, first),
                          next(other.left_tree_data, second))

RECURSIVE equal_loop(_, _, _, _)
equal_loop(s, other, first, second) ==
    IF first = Null THEN TRUE
    ELSE IF s.left_value[first] # other.left_value[second] THEN FALSE
    ELSE equal_loop(s, other, next(s.left_tree_data, first),
                    next(other.left_tree_data, second))

(* operator==(other) on containers that hold a record *)
operator_equal(s, other) ==
    IF s.elements_count # other.elements_count THEN FALSE
    ELSE equal_loop(s, other, begin(s, "left"), begin(other, "left"))

(* ~bimap: dfs over the Left tree, children first, then delete node.  a is *)
(* the memory and the sequence of the records deleted so far.              *)
dfs_delete(a, node) ==
    [s |-> delete_node(a.s, node), freed |-> Append(a.freed, node)]

RECURSIVE dfs(_, _)
dfs_right(a, node) == dfs(a, a.s.left_tree_data.right[node])
dfs(a, node) ==
    IF node = Null THEN a
    ELSE dfs_delete(dfs_right(dfs(a, a.s.left_tree_data.left[node]), node), node)

destructor(s) == dfs([s |-> s, freed |-> <<>>], s.left_root)

(* the members of the object a call is made on, and the same memory seen   *)
(* from an object with the members m                                       *)
members(s) == [left_root |-> s.left_root, right_root |-> s.right_root,
               elements_count |-> s.elements_count]
with_members(s, m) == [s EXCEPT !.left_root = m.left_root,
                                !.right_root = m.right_root,
                                !.elements_count = m.elements_count]

(* swap(other): the roots and the counter change places (the comparators  *)
(* carry no state)                                                         *)
swap(s, other) == [this |-> with_members(s, members(other)),
                   other |-> with_members(other, members(s))]

(* operator=(bimap && other): swap(other); return *this.  s and other are  *)
(* the two objects in one memory.                                          *)
move_assignment(s, other) == swap(s, other)

(* the end of the statement c = source: the parameter, which now has what  *)
(* c had, is destroyed and c keeps what the parameter had                  *)
assigned(w) == with_members(destructor(w.other).s, members(w.this))

(* operator=(bimap other) with its parameter constructed: swap(other);     *)
(* return *this; then ~bimap() of the parameter.  s is the object assigned *)
(* to, seen in the memory the parameter was constructed in.                *)
copy_assignment_body(s, other) == assigned(swap(s, other))

(* c = source, source holding a record: the parameter other is             *)
(* copy-constructed from source, in the same memory                        *)
copy_assignment_with(s, other_) ==
    copy_assignment_body(with_members(other_, members(s)), other_)

copy_assignment(s, source) ==
    copy_assignment_with(s, copy_constructor(s.this, source))

-----------------------------------------------------------------------------
(* Helpers for the inputs and the properties (not code).                   *)

Depth == NumNodes + 1

RECURSIVE SubtreeRec(_, _, _)
SubtreeRec(t, n, fuel) ==
    IF n = Null \/ fuel = 0 THEN {}
    ELSE {n} \cup SubtreeRec(t, t.left[n], fuel - 1)
             \cup SubtreeRec(t, t.right[n], fuel - 1)

(* the cells reachable from n through one side's child links *)
Subtree(t, n) == SubtreeRec(t, n, Depth)

RECURSIVE InOrderRec(_, _, _)
InOrderRec(t, n, fuel) ==
    IF n = Null \/ fuel = 0 THEN <<>>
    ELSE InOrderRec(t, t.left[n], fuel - 1) \o <<n>> \o InOrderRec(t, t.right[n], fuel - 1)

(* the cells of a tree in symmetric order, following child links only *)
InOrder(t, n) == InOrderRec(t, n, Depth)

(* the records of one tree of the container in memory s *)
NodesOf(s, d) == Subtree(Tree(s, d), Root(s, d))
(* the records of the container: those of either tree *)
LiveOf(s) == NodesOf(s, "left") \cup NodesOf(s, "right")
(* the (Left, Right) pairs, Left values and Right values it holds *)
PairsOf(s) == {<<s.left_value[n], s.right_value[n]>> : n \in LiveOf(s)}
ValuesOf(s, d) == {Value(s, d)[n] : n \in LiveOf(s)}

Live(c) == LiveOf(State(c))
Pairs(c) == PairsOf(State(c))
Lefts(c) == ValuesOf(State(c), "left")
Rights(c) == ValuesOf(State(c), "right")
Size(c) == bm[c].elements_count

RECURSIVE AdvanceRec(_, _, _)
AdvanceRec(t, n, fuel) ==
    IF n = Null \/ fuel = 0 THEN {Null}
    ELSE {n} \cup AdvanceRec(t, next(t, n), fuel - 1)

(* the cursors reachable from cursor n by operator++ (end included) *)
Advance(t, n) == AdvanceRec(t, n, Depth)

KeysOf(d) == IF d = "left" THEN LeftVals ELSE RightVals

-----------------------------------------------------------------------------
(* The calls.  Every action is one public member function called on the   *)
(* container c, with its arguments drawn from the value ranges or from the *)
(* cursors that designate records of c.                                    *)

Commit(c, s) ==
    /\ heap' = s.heap
    /\ left_value' = s.left_value
    /\ right_value' = s.right_value
    /\ left_tree_data' = s.left_tree_data
    /\ right_tree_data' = s.right_tree_data
    /\ bm' = [bm EXCEPT ![c].left_root = s.left_root,
                        ![c].right_root = s.right_root,
                        ![c].elements_count = s.elements_count,
                        ![c].constructed = TRUE]

Init ==
    /\ heap = {}
    /\ left_value = [n \in Nodes |-> 0]
    /\ right_value = [n \in Nodes |-> 0]
    /\ left_tree_data = tree_node_t
    /\ right_tree_data = tree_node_t
    /\ bm = [c \in Containers |->
               [left_root |-> Null, right_root |-> Null, elements_count |-> 0,
                constructed |-> (c = "A")]]

(* the roots of the objects other than c *)
other_roots(c) ==
    {bm[o].left_root : o \in Containers \ {c}}
        \cup {bm[o].right_root : o \in Containers \ {c}}

(* the roots of the other objects that are the address of no record when   *)
(* a call on c gets the record n from new and leaves the memory s          *)
stale(c, s, n) == {p \in other_roots(c) : p # Null /\ p \notin s.heap \ {n}}

(* what new can do with those addresses: hand one of them out again, or    *)
(* none (null)                                                             *)
reuse_outcomes(c, s, n) == IF n = Null THEN {Null} ELSE stale(c, s, n) \cup {Null}

(* a cell that stands for an address which is neither a record's nor the   *)
(* one a stale root has                                                    *)
spare(c, s, n) ==
    CHOOSE x \in Nodes \ (s.heap \cup stale(c, s, n)) :
        \A y \in Nodes \ (s.heap \cup stale(c, s, n)) : x <= y

(* the root p of another object after new has returned n: the address      *)
(* reused is now that of the record n; a stale address that was not handed *)
(* out again is not that of the record n, so where it had the cell of n it *)
(* takes a spare one                                                       *)
after_new(c, s, n, reused, p) ==
    IF p = Null THEN Null
    ELSE IF p = reused THEN n
    ELSE IF p = n THEN spare(c, s, n)
    ELSE p

(* the state after a call on c that got the record n from new (null: the  *)
(* call allocated nothing) and left the memory and the members s           *)
CommitNew(c, s, n) ==
    /\ heap' = s.heap
    /\ left_value' = s.left_value
    /\ right_value' = s.right_value
    /\ left_tree_data' = s.left_tree_data
    /\ right_tree_data' = s.right_tree_data
    /\ \E reused \in reuse_outcomes(c, s, n) :
         bm' = [o \in Containers |->
                  IF o = c
                  THEN [left_root |-> s.left_root, right_root |-> s.right_root,
                        elements_count |-> s.elements_count, constructed |-> TRUE]
                  ELSE [bm[o] EXCEPT
                          !.left_root = after_new(c, s, n, reused, @),
                          !.right_root = after_new(c, s, n, reused, @)]]

(* insert(left, right): insert_by_values returns the new record, or null   *)
Insert(c, l, r) ==
    /\ bm[c].constructed
    /\ \E res \in {insert_by_values(State(c), l, r)} : CommitNew(c, res.s, res.ret)

(* erase_left(key) / erase_right(key) *)
EraseKey(c, d, key) ==
    /\ bm[c].constructed
    /\ Commit(c, erase_key(State(c), d, key).s)

(* erase_left(it) / erase_right(it) *)
EraseIterator(c, d, n) ==
    /\ bm[c].constructed
    /\ n \in Live(c)
    /\ Commit(c, erase_iterator(State(c), d, n).s)

(* erase_left(first, last) / erase_right(first, last) *)
EraseRange(c, d, first, last_) ==
    /\ bm[c].constructed
    /\ first \in Live(c) \cup {Null}
    /\ last_ \in Advance(Tree(State(c), d), first)
    /\ Commit(c, erase_range(State(c), d, first, last_).s)

(* find_left / find_right *)
Find(c, d, key) ==
    /\ bm[c].constructed
    /\ Commit(c, find_element(State(c), d, key).s)

(* lower_bound_left / lower_bound_right *)
LowerBound(c, d, key) ==
    /\ bm[c].constructed
    /\ Commit(c, lower_bound(State(c), d, key).s)

(* upper_bound_left / upper_bound_right *)
UpperBound(c, d, key) ==
    /\ bm[c].constructed
    /\ Commit(c, upper_bound(State(c), d, key).s)

(* at_left / at_right, returning or throwing *)
At(c, d, key) ==
    /\ bm[c].constructed
    /\ Commit(c, at_element(State(c), d, flip_descriptor(d), key).s)

(* at_left_or_default / at_right_or_default *)
AtOrDefault(c, d, key) ==
    /\ bm[c].constructed
    /\ \E res \in {at_element_or_default(State(c), d, flip_descriptor(d), key)},
          n \in {at_or_default_new(State(c), d, flip_descriptor(d), key)} :
         CommitNew(c, res.s, n)

(* bimap B(std::move(A)) *)
MoveConstruct ==
    /\ bm["A"].constructed
    /\ ~bm["B"].constructed
    /\ \E garbage \in Ptrs :
         bm' = [bm EXCEPT !["B"] = move_constructor(bm["A"], garbage).this,
                          !["A"] = move_constructor(bm["A"], garbage).other]
    /\ UNCHANGED <<heap, left_value, right_value, left_tree_data, right_tree_data>>

(* ~bimap(): the object is gone afterwards *)
Destroyed(c, s) ==
    /\ heap' = s.heap
    /\ left_value' = s.left_value
    /\ right_value' = s.right_value
    /\ left_tree_data' = s.left_tree_data
    /\ right_tree_data' = s.right_tree_data
    /\ bm' = [bm EXCEPT ![c] = [left_root |-> Null, right_root |-> Null,
                                elements_count |-> 0, constructed |-> FALSE]]

Destroy(c) ==
    /\ bm[c].constructed
    /\ Destroyed(c, destructor(State(c)).s)

Operation(c) ==
    \/ \E l \in LeftVals, r \in RightVals : Insert(c, l, r)
    \/ \E d \in Descriptors : \E key \in KeysOf(d) : EraseKey(c, d, key)
    \/ \E d \in Descriptors, n \in Nodes : EraseIterator(c, d, n)
    \/ \E d \in Descriptors, first \in Ptrs, last_ \in Ptrs : EraseRange(c, d, first, last_)
    \/ \E d \in Descriptors : \E key \in KeysOf(d) : Find(c, d, key)
    \/ \E d \in Descriptors : \E key \in KeysOf(d) : LowerBound(c, d, key)
    \/ \E d \in Descriptors : \E key \in KeysOf(d) : UpperBound(c, d, key)
    \/ \E d \in Descriptors : \E key \in KeysOf(d) : At(c, d, key)
    \/ \E d \in Descriptors : \E key \in KeysOf(d) : AtOrDefault(c, d, key)

Next == Operation("A") \/ Destroy("A")

Spec == Init /\ [][Next]_vars

(* the same calls on A, the move construction of B from it, and the calls *)
(* on A after a move of one to MaxMoved records, those that leave up to   *)
(* MaxMoved + 1 records in the heap                                        *)
NextMove ==
    \/ ~bm["B"].constructed /\ Operation("A")
    \/ MoveConstruct
    \/ /\ bm["B"].constructed
       /\ bm["B"].elements_count \in 1..MaxMoved
       /\ Operation("A")
       /\ Cardinality(heap') <= MaxMoved + 1

SpecMove == Init /\ [][NextMove]_vars

(* bimap B(A), A holding a record; the action copies containers of up to   *)
(* MaxCopied records                                                       *)
CopyConstruct ==
    /\ bm["A"].constructed
    /\ ~bm["B"].constructed
    /\ bm["A"].left_root # Null
    /\ bm["A"].elements_count <= MaxCopied
    /\ Commit("B", copy_constructor("B", State("A")))

(* c = o through operator=(bimap other), o holding a record; the action   *)
(* copies containers of up to MaxCopied records                            *)
CopyAssign(c, o) ==
    /\ bm[c].constructed
    /\ bm[o].constructed
    /\ bm[o].left_root # Null
    /\ bm[o].elements_count <= MaxCopied
    /\ Commit(c, copy_assignment(State(c), State(o)))

(* the object whose members are those of the view s *)
object(s) == [left_root |-> s.left_root, right_root |-> s.right_root,
              elements_count |-> s.elements_count, constructed |-> TRUE]

(* c.operator=(std::move(o)) through operator=(bimap && other) *)
MoveAssign(c, o) ==
    /\ bm[c].constructed
    /\ bm[o].constructed
    /\ bm' = [bm EXCEPT ![c] = object(move_assignment(State(c), State(o)).this),
                        ![o] = object(move_assignment(State(c), State(o)).other)]
    /\ UNCHANGED <<heap, left_value, right_value, left_tree_data, right_tree_data>>

(* the calls on A, the copy, and then the calls on either container; a     *)
(* call that leaves more than MaxCells records in the heap is followed     *)
(* only if it frees one                                                    *)
NextCopy ==
    \/ ~bm["B"].constructed /\ Operation("A")
    \/ CopyConstruct
    \/ /\ bm["B"].constructed
       /\ \E c \in Containers : Operation(c)
       /\ \/ Cardinality(heap') <= MaxCells
          \/ Cardinality(heap') < Cardinality(heap)

SpecCopy == Init /\ [][NextCopy]_vars

(* the calls that add or remove a record, with values up to MaxAssigned *)
Mutation(c) ==
    \/ \E l \in 0..MaxAssigned, r \in 0..MaxAssigned : Insert(c, l, r)
    \/ \E d \in Descriptors : \E key \in 0..MaxAssigned : EraseKey(c, d, key)

(* inserts and erases on A, the copy, and then inserts, erases and         *)
(* assignments on and between the two containers; a copy assignment is     *)
(* made when the heap has the free cells for the records of its parameter  *)
NextAssign ==
    \/ ~bm["B"].constructed /\ Mutation("A")
    \/ CopyConstruct
    \/ bm["B"].constructed /\ \E c \in Containers : Mutation(c)
    \/ /\ bm["B"].constructed
       /\ \E c \in Containers, o \in Containers :
            /\ Cardinality(heap) + bm[o].elements_count <= NumNodes
            /\ CopyAssign(c, o)
    \/ /\ bm["B"].constructed
       /\ \E c \in Containers, o \in Containers : MoveAssign(c, o)

SpecAssign == Init /\ [][NextAssign]_vars

-----------------------------------------------------------------------------
(* Properties.  A property of a call is stated on every reachable state:  *)
(* whatever the arguments, the operator that models the call returns and   *)
(* leaves behind what the claim says.                                      *)

NoDuplicates(seq) == \A i, j \in 1..Len(seq) : seq[i] = seq[j] => i = j
SeqSet(seq) == {seq[i] : i \in 1..Len(seq)}

(* C1 -- Uniqueness: after any sequence of the calls, no two records of    *)
(* the container share a Left value and no two share a Right value.        *)
C1_Uniqueness ==
    \A c \in Containers : bm[c].constructed =>
        \A n, m \in Live(c) :
            n # m => /\ left_value[n] # left_value[m]
                     /\ right_value[n] # right_value[m]

(* four records, none of them pairing a value with itself on the other     *)
(* side, the two trees rooted at different records                         *)
C1_Witness ==
    /\ Cardinality(Live("A")) = 4
    /\ \A n \in Live("A") : left_value[n] # right_value[n]
    /\ bm["A"].left_root # bm["A"].right_root

(* C2 -- Shared membership: the records reachable from left_root through   *)
(* the Left links are those reachable from right_root through the Right    *)
(* links, each occurs at exactly one position of each tree, and            *)
(* elements_count is their number.                                         *)
C2_SharedMembership ==
    \A c \in Containers : bm[c].constructed =>
        /\ NodesOf(State(c), "left") = NodesOf(State(c), "right")
        /\ \A d \in Descriptors :
             /\ NoDuplicates(InOrder(Tree(State(c), d), Root(State(c), d)))
             /\ Len(InOrder(Tree(State(c), d), Root(State(c), d)))
                  = Cardinality(NodesOf(State(c), d))
        /\ bm[c].elements_count = Cardinality(NodesOf(State(c), "left"))

(* three records are left where the cell of a fourth has been freed, and   *)
(* the two trees have different shapes                                     *)
C2_Witness ==
    /\ bm["A"].elements_count = 3
    /\ bm["A"].left_root # bm["A"].right_root
    /\ \E n \in Nodes \ heap : \E m \in heap : n < m
    /\ \E n \in heap : (left_tree_data.left[n] = Null) # (right_tree_data.left[n] = Null)

(* one side's tree is a binary search tree with consistent parent links *)
WellFormed(d, t, v, root) ==
    /\ root # Null => t.parent[root] = Null
    /\ \A n \in Subtree(t, root) :
        /\ \A m \in Subtree(t, t.left[n]) : compare(d, v[m], v[n])
        /\ \A m \in Subtree(t, t.right[n]) : compare(d, v[n], v[m])
        /\ t.left[n] # Null => t.parent[t.left[n]] = n
        /\ t.right[n] # Null => t.parent[t.right[n]] = n

(* C3 -- BST: after every call each of the two trees is a binary search    *)
(* tree under its comparator, the root has no parent and every child's     *)
(* parent link points back to the record that has it as a child.           *)
C3_BST ==
    \A c \in Containers : bm[c].constructed =>
        \A d \in Descriptors :
            WellFormed(d, Tree(State(c), d), Value(State(c), d), Root(State(c), d))

(* a tree in which some record is the right child of a left child, and     *)
(* another in which some record is the left child of a right child: the    *)
(* shapes that splay's two zig-zag cases rotate                            *)
C3_Witness ==
    /\ \E n \in Live("A") :
         LET p == left_tree_data.parent[n] IN
         /\ p # Null /\ left_tree_data.right[p] = n
         /\ left_tree_data.parent[p] # Null
         /\ left_tree_data.left[left_tree_data.parent[p]] = p
    /\ \E n \in Live("A") :
         LET p == right_tree_data.parent[n] IN
         /\ p # Null /\ right_tree_data.left[p] = n
         /\ right_tree_data.parent[p] # Null
         /\ right_tree_data.right[right_tree_data.parent[p]] = p

(* C4 -- Conflict rejection: insert(l, r) when l is a Left value of some   *)
(* record or r is a Right value of some record returns end_left(), leaves  *)
(* size() unchanged, allocates nothing and leaves the pairs as they were.  *)
C4_ConflictRejection ==
    \A c \in Containers : bm[c].constructed =>
        \A l \in LeftVals, r \in RightVals :
            (l \in Lefts(c) \/ r \in Rights(c)) =>
                LET res == insert_by_values(State(c), l, r)
                IN /\ res.ret = Null
                   /\ res.s.elements_count = Size(c)
                   /\ res.s.heap = heap
                   /\ PairsOf(res.s) = Pairs(c)

(* an insert whose Right value alone is held is rejected, after its two    *)
(* finds have moved both roots                                             *)
C4_Witness ==
    \E l \in LeftVals, r \in RightVals :
        /\ l \notin Lefts("A") /\ r \in Rights("A")
        /\ insert_by_values(State("A"), l, r).ret = Null
        /\ insert_by_values(State("A"), l, r).s.left_root # bm["A"].left_root
        /\ insert_by_values(State("A"), l, r).s.right_root # bm["A"].right_root

(* C5 -- Successful insertion: insert(l, r) with l and r both absent adds  *)
(* exactly (l, r), increments size() by 1, keeps every other pair, makes   *)
(* the new record the root of both trees and returns a cursor to it, whose *)
(* value is l and whose flip() has value r.                                *)
C5_SuccessfulInsertion ==
    \A c \in Containers : bm[c].constructed =>
        \A l \in LeftVals \ Lefts(c), r \in RightVals \ Rights(c) :
            LET res == insert_by_values(State(c), l, r)
            IN /\ res.ret # Null
               /\ res.ret \notin heap
               /\ res.s.heap = heap \cup {res.ret}
               /\ PairsOf(res.s) = Pairs(c) \cup {<<l, r>>}
               /\ res.s.elements_count = Size(c) + 1
               /\ res.s.left_root = res.ret
               /\ res.s.right_root = res.ret
               /\ res.s.left_tree_data.parent[res.ret] = Null
               /\ res.s.right_tree_data.parent[res.ret] = Null
               /\ res.s.left_value[res.ret] = l
               /\ res.s.right_value[res.ret] = r

(* an insert into three records succeeds and the new root has records on   *)
(* both sides in the Left tree and in the Right tree                       *)
C5_Witness ==
    \E l \in LeftVals \ Lefts("A"), r \in RightVals \ Rights("A") :
        LET res == insert_by_values(State("A"), l, r)
        IN /\ bm["A"].elements_count = 3
           /\ res.ret # Null
           /\ res.s.left_tree_data.left[res.ret] # Null
           /\ res.s.left_tree_data.right[res.ret] # Null
           /\ res.s.right_tree_data.left[res.ret] # Null
           /\ res.s.right_tree_data.right[res.ret] # Null

(* C6 -- Erase completeness: erase_left(l) for a held pair (l, r) returns  *)
(* true; afterwards find_left(l) and find_right(r) are end, size() is one  *)
(* less and every other pair is still held; likewise erase_right(r).       *)
C6_EraseCompleteness ==
    \A c \in Containers : bm[c].constructed =>
        \A pr \in Pairs(c), d \in Descriptors :
            LET res == erase_key(State(c), d, IF d = "left" THEN pr[1] ELSE pr[2])
            IN /\ res.ret = TRUE
               /\ find_element(res.s, "left", pr[1]).ret = Null
               /\ find_element(res.s, "right", pr[2]).ret = Null
               /\ res.s.elements_count = Size(c) - 1
               /\ PairsOf(res.s) = Pairs(c) \ {pr}

(* erase_left removes, from four records, one that is at neither root and  *)
(* has records on both sides in the Left tree                              *)
C6_Witness ==
    \E n \in Live("A") :
        /\ bm["A"].elements_count = 4
        /\ n # bm["A"].left_root /\ n # bm["A"].right_root
        /\ left_tree_data.left[n] # Null /\ left_tree_data.right[n] # Null
        /\ erase_key(State("A"), "left", left_value[n]).ret = TRUE
        /\ n \notin erase_key(State("A"), "left", left_value[n]).s.heap

(* C7 -- Erase by cursor returns the successor: erase_left(it) and         *)
(* erase_right(it) remove the record and return a cursor to the record     *)
(* that was its in-order successor on that side, or end when the erased    *)
(* record was that side's maximum.                                         *)
C7_EraseReturnsSuccessor ==
    \A c \in Containers : bm[c].constructed =>
        \A d \in Descriptors, n \in Live(c) :
            LET res == erase_iterator(State(c), d, n)
            IN /\ n \notin LiveOf(res.s)
               /\ res.ret = next(Tree(State(c), d), n)

(* C8 -- Move construction: B constructed by move from A has A's former    *)
(* roots and count, and A is left with count 0 and both roots null.        *)
C8_MoveTransfers ==
    [][MoveConstruct =>
         /\ bm'["B"].left_root = bm["A"].left_root
         /\ bm'["B"].right_root = bm["A"].right_root
         /\ bm'["B"].elements_count = bm["A"].elements_count
         /\ bm'["A"].left_root = Null
         /\ bm'["A"].right_root = Null
         /\ bm'["A"].elements_count = 0]_vars

(* C9 -- Retreat from end: on a non-empty container, in any tree shape,    *)
(* decrementing the end cursor of a side yields the record with that       *)
(* side's maximum value, for the right cursor as for the left one.         *)
C9_RetreatFromEnd ==
    \A c \in Containers : (bm[c].constructed /\ bm[c].left_root # Null) =>
        \A d \in Descriptors :
            /\ decrement_end(State(c), d) \in Live(c)
            /\ \A m \in Live(c) :
                 ~compare(d, Value(State(c), d)[decrement_end(State(c), d)],
                             Value(State(c), d)[m])

RECURSIVE WalkRec(_, _, _)
WalkRec(t, n, fuel) ==
    IF n = Null \/ fuel = 0 THEN <<>>
    ELSE <<n>> \o WalkRec(t, next(t, n), fuel - 1)

(* the records visited from begin_left() / begin_right() by operator++     *)
(* until the end cursor                                                    *)
Walk(c, d) == WalkRec(Tree(State(c), d), begin(State(c), d), Depth)

(* C10 -- Ordered traversal: on a container holding a pair, in any tree    *)
(* shape, begin..end of a side visits every record exactly once, size()    *)
(* records in all, in strictly increasing order of that side's value.      *)
C10_OrderedTraversal ==
    \A c \in Containers, d \in Descriptors :
        (bm[c].constructed /\ Root(State(c), d) # Null) =>
            LET w == Walk(c, d)
                v == Value(State(c), d)
            IN /\ Len(w) = Size(c)
               /\ SeqSet(w) = Live(c)
               /\ \A i \in 1..(Len(w) - 1) : compare(d, v[w[i]], v[w[i + 1]])

(* four records; in the Left tree the root's successor is found by sinking *)
(* left below its right child, in the Right tree some record's successor   *)
(* is found two parent links up                                            *)
C10_Witness ==
    /\ bm["A"].elements_count = 4
    /\ left_tree_data.right[bm["A"].left_root] # Null
    /\ left_tree_data.left[left_tree_data.right[bm["A"].left_root]] # Null
    /\ \E n \in Live("A") :
         LET p == right_tree_data.parent[n] IN
         /\ right_tree_data.right[n] = Null
         /\ p # Null /\ right_tree_data.right[p] = n
         /\ right_tree_data.parent[p] # Null
         /\ right_tree_data.left[right_tree_data.parent[p]] = p

(* find_left(l) / find_right(r) as cursors *)
find_iterator(s, d, key) == basic_iterator(s.this, d, find_element(s, d, key).ret)

(* C11 -- Bijection through flip: for every held pair (l, r), find_left(l) *)
(* and find_right(r) are not end and designate the same record, whichever  *)
(* is called first: find_left(l).flip() == find_right(r) and               *)
(* find_right(r).flip() == find_left(l).                                   *)
C11_BijectionThroughFlip ==
    \A c \in Containers : bm[c].constructed =>
        \A pr \in Pairs(c) :
            LET s1 == find_element(State(c), "left", pr[1]).s
                s2 == find_element(State(c), "right", pr[2]).s
            IN /\ find_iterator(State(c), "left", pr[1]).node # Null
               /\ find_iterator(s1, "right", pr[2]).node # Null
               /\ iterator_equal(flip(find_iterator(State(c), "left", pr[1])),
                                 find_iterator(s1, "right", pr[2]))
               /\ find_iterator(State(c), "right", pr[2]).node # Null
               /\ find_iterator(s2, "left", pr[1]).node # Null
               /\ iterator_equal(flip(find_iterator(State(c), "right", pr[2])),
                                 find_iterator(s2, "left", pr[1]))

(* four records; the two finds of some pair each have to descend to a      *)
(* record that is at neither root and bring it up                          *)
C11_Witness ==
    \E n \in Live("A") :
        /\ bm["A"].elements_count = 4
        /\ n # bm["A"].left_root /\ n # bm["A"].right_root
        /\ left_value[n] # right_value[n]
        /\ find_element(State("A"), "left", left_value[n]).ret = n
        /\ find_element(State("A"), "right", right_value[n]).ret = n
        /\ find_element(State("A"), "left", left_value[n]).s.left_root = n

(* C12 -- Round trip: for every held pair (l, r), at_left(l) returns r and  *)
(* at_right(r) returns l, so at_right(at_left(l)) = l and                  *)
(* at_left(at_right(r)) = r.                                               *)
C12_RoundTrip ==
    \A c \in Containers : bm[c].constructed =>
        \A pr \in Pairs(c) :
            LET al == at_element(State(c), "left", "right", pr[1])
                ar == at_element(State(c), "right", "left", pr[2])
            IN /\ ~al.threw /\ al.ret = pr[2]
               /\ ~ar.threw /\ ar.ret = pr[1]
               /\ ~at_element(al.s, "right", "left", al.ret).threw
               /\ at_element(al.s, "right", "left", al.ret).ret = pr[1]
               /\ ~at_element(ar.s, "left", "right", ar.ret).threw
               /\ at_element(ar.s, "left", "right", ar.ret).ret = pr[2]

(* four records; at_left of a pair whose two values differ and whose       *)
(* record is at neither root returns the Right value, and at_right of that *)
(* returns the Left value back                                             *)
C12_Witness ==
    \E n \in Live("A") :
        /\ bm["A"].elements_count = 4
        /\ n # bm["A"].left_root /\ n # bm["A"].right_root
        /\ left_value[n] # right_value[n]
        /\ at_element(State("A"), "left", "right", left_value[n]).ret = right_value[n]
        /\ at_element(at_element(State("A"), "left", "right", left_value[n]).s,
                      "right", "left", right_value[n]).ret = left_value[n]

(* the record of s with the smallest value on side d among those whose     *)
(* value is in the set wanted, or Null when there is none                  *)
FirstWith(s, d, wanted) ==
    LET cand == {n \in LiveOf(s) : Value(s, d)[n] \in wanted}
    IN IF cand = {} THEN Null
       ELSE CHOOSE n \in cand : \A m \in cand : ~compare(d, Value(s, d)[m], Value(s, d)[n])

(* C13 -- Bound semantics: for every key k, held or not, lower_bound on a  *)
(* side returns a cursor to the record with the smallest value of that     *)
(* side not less than k and upper_bound to the one with the smallest value *)
(* greater than k, each the end cursor when there is no such record.       *)
C13_BoundSemantics ==
    \A c \in Containers : bm[c].constructed =>
        \A d \in Descriptors : \A k \in KeysOf(d) :
            /\ lower_bound(State(c), d, k).ret
                 = FirstWith(State(c), d, {x \in KeysOf(d) : ~compare(d, x, k)})
            /\ upper_bound(State(c), d, k).ret
                 = FirstWith(State(c), d, {x \in KeysOf(d) : compare(d, k, x)})

(* with an absent key that find leaves above the root, lower_bound and     *)
(* upper_bound both return the record after it; with a held key they       *)
(* return different records, upper_bound after sinking left below the      *)
(* root's right child; with a key above all held values lower_bound        *)
(* returns end                                                             *)
C13_Witness ==
    /\ bm["A"].elements_count = 3
    /\ \E k \in LeftVals \ Lefts("A") :
         LET f == find_root(State("A"), "left", k) IN
         /\ compare("left", f.left_value[f.left_root], k)
         /\ lower_bound(State("A"), "left", k).ret # Null
         /\ lower_bound(State("A"), "left", k).ret = upper_bound(State("A"), "left", k).ret
    /\ \E k \in Rights("A") :
         LET f == find_root(State("A"), "right", k) IN
         /\ f.right_tree_data.right[f.right_root] # Null
         /\ f.right_tree_data.left[f.right_tree_data.right[f.right_root]] # Null
         /\ upper_bound(State("A"), "right", k).ret # Null
         /\ lower_bound(State("A"), "right", k).ret # upper_bound(State("A"), "right", k).ret
    /\ \E k \in RightVals : lower_bound(State("A"), "right", k).ret = Null

(* the pair made of the value x of side d and the value y of the other side *)
PairOf(d, x, y) == IF d = "left" THEN <<x, y>> ELSE <<y, x>>
(* the component of pair pr on side d *)
SideOf(d, pr) == IF d = "left" THEN pr[1] ELSE pr[2]

(* C14 -- at_or_default on an absent key: at_left_or_default(k) with k not *)
(* held returns the default Right value; afterwards at_left(k) is the      *)
(* default, the pairs are those whose Right value was not the default      *)
(* together with (k, default), and size() has grown by 1 if no record held *)
(* the default and is unchanged if one did; likewise at_right_or_default.  *)
C14_AtOrDefaultAbsent ==
    \A c \in Containers : bm[c].constructed =>
        \A d \in Descriptors : \A k \in KeysOf(d) \ ValuesOf(State(c), d) :
            LET d2  == flip_descriptor(d)
                res == at_element_or_default(State(c), d, d2, k)
            IN /\ res.ret = default_value(d2)
               /\ ~at_element(res.s, d, d2, k).threw
               /\ at_element(res.s, d, d2, k).ret = default_value(d2)
               /\ PairsOf(res.s)
                    = {pr \in Pairs(c) : SideOf(d2, pr) # default_value(d2)}
                        \cup {PairOf(d, k, default_value(d2))}
               /\ res.s.elements_count
                    = IF default_value(d2) \in ValuesOf(State(c), d2)
                      THEN Size(c) ELSE Size(c) + 1

(* three records: at_left_or_default of an absent key replaces the record  *)
(* that holds the default Right value, which is at neither root, and       *)
(* at_right_or_default of an absent key, no record holding the default     *)
(* Left value, adds a fourth record                                        *)
C14_Witness ==
    /\ bm["A"].elements_count = 3
    /\ \E k \in LeftVals \ Lefts("A") : \E n \in Live("A") :
         /\ right_value[n] = DefaultRight
         /\ n # bm["A"].left_root /\ n # bm["A"].right_root
         /\ at_element_or_default(State("A"), "left", "right", k).ret = DefaultRight
         /\ at_element_or_default(State("A"), "left", "right", k).s.elements_count = 3
         /\ n \notin at_element_or_default(State("A"), "left", "right", k).s.heap
    /\ \E k \in RightVals \ Rights("A") :
         /\ DefaultLeft \notin Lefts("A")
         /\ at_element_or_default(State("A"), "right", "left", k).ret = DefaultLeft
         /\ at_element_or_default(State("A"), "right", "left", k).s.elements_count = 4

RECURSIVE RangeRec(_, _, _, _)
RangeRec(t, first, last, fuel) ==
    IF first = last \/ first = Null \/ fuel = 0 THEN {}
    ELSE {first} \cup RangeRec(t, next(t, first), last, fuel - 1)

(* the records of [first, last) in the order of linkage t *)
Range(t, first, last) == RangeRec(t, first, last, Depth)

(* C15 -- Range erase: erase_left(first, last), last reachable from first  *)
(* by advancing (possibly end), removes exactly the records of             *)
(* [first, last), keeps every other pair, decreases size() by the number   *)
(* of records in the range and returns last, which designates the same     *)
(* record (or end) as before; likewise erase_right(first, last).           *)
C15_RangeErase ==
    \A c \in Containers : bm[c].constructed =>
        \A d \in Descriptors, first \in Live(c) \cup {Null} :
            \A last \in Advance(Tree(State(c), d), first) :
                LET range == Range(Tree(State(c), d), first, last)
                    res   == erase_range(State(c), d, first, last)
                IN /\ res.ret = last
                   /\ LiveOf(res.s) = Live(c) \ range
                   /\ res.s.heap = heap \ range
                   /\ PairsOf(res.s)
                        = {<<left_value[n], right_value[n]>> : n \in Live(c) \ range}
                   /\ res.s.elements_count = Size(c) - Cardinality(range)
                   /\ last # Null =>
                        /\ res.s.left_value[last] = left_value[last]
                        /\ res.s.right_value[last] = right_value[last]

(* four records; a range of two that starts after the first record and     *)
(* stops at the last one is erased on the Right side, and the two records  *)
(* have different positions in the Left order                              *)
C15_Witness ==
    \E first \in Live("A"), last \in Live("A") :
        LET range == Range(right_tree_data, first, last) IN
        /\ bm["A"].elements_count = 4
        /\ first # begin(State("A"), "right")
        /\ last \in Advance(right_tree_data, first)
        /\ Cardinality(range) = 2
        /\ \E n \in range : left_value[n] > left_value[last]
        /\ erase_range(State("A"), "right", first, last).ret = last
        /\ erase_range(State("A"), "right", first, last).s.elements_count = 2
        /\ erase_range(State("A"), "right", first, last).s.heap = heap \ range

(* container c as it stands in memory s *)
Seen(s, c) == [s EXCEPT !.this = c,
                        !.left_root = bm[c].left_root,
                        !.right_root = bm[c].right_root,
                        !.elements_count = bm[c].elements_count]

(* container o is in memory s what it is in the current state *)
Untouched(s, o) ==
    /\ LiveOf(Seen(s, o)) = Live(o)
    /\ PairsOf(Seen(s, o)) = Pairs(o)
    /\ \A d \in Descriptors :
         InOrder(Tree(Seen(s, o), d), Root(Seen(s, o), d))
           = InOrder(Tree(State(o), d), Root(State(o), d))

(* C16 -- Copy independence: copy-constructing B from a container A that   *)
(* holds a pair gives B the pairs and the size of A, B == A, on records    *)
(* disjoint from A's and without changing A; afterwards the two share no   *)
(* record, and an insert or an erase (by key, cursor or range) on one      *)
(* leaves the pairs, the records and the size of the other as they were.   *)
C16_CopyIndependence ==
    /\ (bm["A"].constructed /\ ~bm["B"].constructed /\ bm["A"].left_root # Null) =>
         LET b == copy_constructor("B", State("A"))
         IN /\ PairsOf(b) = Pairs("A")
            /\ b.elements_count = Size("A")
            /\ Cardinality(LiveOf(b)) = Size("A")
            /\ operator_equal(b, Seen(b, "A"))
            /\ LiveOf(b) \cap Live("A") = {}
            /\ Untouched(b, "A")
    /\ (bm["A"].constructed /\ bm["B"].constructed) =>
         /\ Live("A") \cap Live("B") = {}
         /\ \A c \in Containers : \A o \in Containers \ {c} :
              /\ \A l \in LeftVals, r \in RightVals :
                   Untouched(insert_by_values(State(c), l, r).s, o)
              /\ \A d \in Descriptors : \A k \in KeysOf(d) :
                   Untouched(erase_key(State(c), d, k).s, o)
              /\ \A d \in Descriptors, n \in Live(c) :
                   /\ Untouched(erase_iterator(State(c), d, n).s, o)
                   /\ Untouched(erase_range(State(c), d, n, Null).s, o)

(* after the copy B has received a pair that A has not and A has lost the  *)
(* pair it was copied with, which B still holds                            *)
C16_Witness ==
    /\ bm["A"].constructed /\ bm["B"].constructed
    /\ bm["B"].elements_count = 2
    /\ bm["A"].elements_count = 1
    /\ Pairs("A") \cap Pairs("B") = {}
    /\ bm["B"].left_root # bm["B"].right_root
    /\ \E n \in Live("B") : left_value[n] # right_value[n]

(* C17 -- Allocation accounting: the allocated records are at every moment *)
(* the records reachable from the roots, elements_count of them; a         *)
(* successful insert allocates one new record and a failed one none; an    *)
(* erase by key, cursor or range frees exactly the records it removes,     *)
(* each of them allocated until then; the destructor frees every record    *)
(* still held exactly once, and nothing stays allocated after it.          *)
C17_AllocationAccounting ==
    /\ ~bm["A"].constructed => heap = {}
    /\ bm["A"].constructed =>
         /\ heap = NodesOf(State("A"), "left")
         /\ heap = NodesOf(State("A"), "right")
         /\ Cardinality(heap) = bm["A"].elements_count
         /\ \A l \in LeftVals, r \in RightVals :
              LET res == insert_by_values(State("A"), l, r)
              IN IF res.ret = Null THEN res.s.heap = heap
                 ELSE /\ res.ret \notin heap
                      /\ res.s.heap = heap \cup {res.ret}
         /\ \A d \in Descriptors : \A k \in KeysOf(d) :
              LET res == erase_key(State("A"), d, k)
              IN /\ res.s.heap \subseteq heap
                 /\ res.s.heap = LiveOf(res.s)
                 /\ Cardinality(heap \ res.s.heap) = IF res.ret THEN 1 ELSE 0
         /\ \A d \in Descriptors, n \in Live("A") :
              /\ erase_iterator(State("A"), d, n).s.heap = heap \ {n}
              /\ LiveOf(erase_iterator(State("A"), d, n).s) = heap \ {n}
              /\ erase_range(State("A"), d, n, Null).s.heap
                   = heap \ Range(Tree(State("A"), d), n, Null)
         /\ \A d \in Descriptors : \A k \in KeysOf(d) :
              /\ find_element(State("A"), d, k).s.heap = heap
              /\ lower_bound(State("A"), d, k).s.heap = heap
              /\ upper_bound(State("A"), d, k).s.heap = heap
              /\ at_element(State("A"), d, flip_descriptor(d), k).s.heap = heap
              /\ LET res == at_element_or_default(State("A"), d, flip_descriptor(d), k)
                 IN /\ res.s.heap = LiveOf(res.s)
                    /\ k \in ValuesOf(State("A"), d) => res.s.heap = heap
         /\ LET fr == destructor(State("A"))
            IN /\ NoDuplicates(fr.freed)
               /\ SeqSet(fr.freed) = heap
               /\ fr.s.heap = {}

(* three records are allocated where a fourth has been freed, the two      *)
(* trees differ in shape, and the destructor frees the three, the Left     *)
(* root last                                                               *)
C17_Witness ==
    /\ bm["A"].constructed
    /\ Cardinality(heap) = 3
    /\ \E n \in Nodes \ heap : \E m \in heap : n < m
    /\ bm["A"].left_root # bm["A"].right_root
    /\ left_tree_data.left[bm["A"].left_root] # Null
    /\ left_tree_data.right[bm["A"].left_root] # Null
    /\ Len(destructor(State("A")).freed) = 3
    /\ destructor(State("A")).freed[3] = bm["A"].left_root

(* C18 -- KeyNotFound: at_left(k) throws std::out_of_range exactly when k   *)
(* is not a held Left value, the empty container included, and then leaves *)
(* the pairs, the records and size() unchanged; likewise at_right(k).      *)
C18_KeyNotFound ==
    \A c \in Containers : bm[c].constructed =>
        \A d \in Descriptors : \A k \in KeysOf(d) :
            LET res == at_element(State(c), d, flip_descriptor(d), k)
            IN /\ res.threw <=> k \notin ValuesOf(State(c), d)
               /\ res.threw =>
                    /\ PairsOf(res.s) = Pairs(c)
                    /\ LiveOf(res.s) = Live(c)
                    /\ res.s.heap = heap
                    /\ res.s.elements_count = Size(c)

(* three records; at_right of an absent key lying between two held Right   *)
(* values throws after moving the Right root, and at_right of a held key   *)
(* returns                                                                 *)
C18_Witness ==
    /\ bm["A"].elements_count = 3
    /\ \E k \in RightVals \ Rights("A") :
         /\ \E n, m \in Live("A") : right_value[n] < k /\ k < right_value[m]
         /\ at_element(State("A"), "right", "left", k).threw
         /\ at_element(State("A"), "right", "left", k).s.right_root # bm["A"].right_root
    /\ \E k \in Rights("A") : ~at_element(State("A"), "right", "left", k).threw

(* C19 -- Miss on erase: erase_left(k) with k not a held Left value, the    *)
(* empty container included, returns false, frees no record and leaves the *)
(* pairs and size() unchanged, though it may reshape both trees; likewise  *)
(* erase_right(k).                                                         *)
C19_MissOnErase ==
    \A c \in Containers : bm[c].constructed =>
        \A d \in Descriptors : \A k \in KeysOf(d) \ ValuesOf(State(c), d) :
            LET res == erase_key(State(c), d, k)
            IN /\ res.ret = FALSE
               /\ res.s.heap = heap
               /\ LiveOf(res.s) = Live(c)
               /\ PairsOf(res.s) = Pairs(c)
               /\ res.s.elements_count = Size(c)

(* three records; erase_left of an absent key returns false after moving   *)
(* both roots to the record its find stopped at                            *)
C19_Witness ==
    \E k \in LeftVals \ Lefts("A") :
        LET res == erase_key(State("A"), "left", k) IN
        /\ bm["A"].elements_count = 3
        /\ res.ret = FALSE
        /\ res.s.left_root # bm["A"].left_root
        /\ res.s.right_root # bm["A"].right_root
        /\ res.s.left_root = res.s.right_root

(* memory s holds the records, values, pairs and size that container c has *)
(* in the current state                                                    *)
ShapeOnly(s, c) ==
    /\ s.heap = heap
    /\ s.left_value = left_value
    /\ s.right_value = right_value
    /\ LiveOf(s) = Live(c)
    /\ PairsOf(s) = Pairs(c)
    /\ s.elements_count = Size(c)

(* C20 -- Lookups change shape only: find_left/right, lower_bound and      *)
(* upper_bound on either side, at_left/right (returning or throwing), and  *)
(* at_left_or_default / at_right_or_default with a held key leave the      *)
(* pairs, the allocated records and size() unchanged; only links and the   *)
(* two roots may change.                                                   *)
C20_LookupsChangeShapeOnly ==
    \A c \in Containers : bm[c].constructed =>
        \A d \in Descriptors : \A k \in KeysOf(d) :
            /\ ShapeOnly(find_element(State(c), d, k).s, c)
            /\ ShapeOnly(lower_bound(State(c), d, k).s, c)
            /\ ShapeOnly(upper_bound(State(c), d, k).s, c)
            /\ ShapeOnly(at_element(State(c), d, flip_descriptor(d), k).s, c)
            /\ k \in ValuesOf(State(c), d) =>
                 ShapeOnly(at_element_or_default(State(c), d, flip_descriptor(d), k).s, c)

(* four records; a find, an upper_bound that sinks below the right child   *)
(* and an at_right_or_default of a held key each move a root               *)
C20_Witness ==
    /\ bm["A"].elements_count = 4
    /\ \E k \in Lefts("A") :
         /\ find_element(State("A"), "left", k).s.left_root # bm["A"].left_root
         /\ upper_bound(State("A"), "left", k).ret # Null
         /\ upper_bound(State("A"), "left", k).ret
              # find_root(State("A"), "left", k).left_tree_data.right[
                  find_root(State("A"), "left", k).left_root]
    /\ \E k \in Rights("A") :
         at_element_or_default(State("A"), "right", "left", k).s.right_root
           # bm["A"].right_root

(* containers sa and sb have equal size and the same Left values, that is, *)
(* equal ascending sequences of Left values                                *)
SameLefts(sa, sb) ==
    /\ sa.elements_count = sb.elements_count
    /\ ValuesOf(sa, "left") = ValuesOf(sb, "left")

(* a == b and b == a are both what SameLefts says, for non-empty a and b   *)
EqualIsSameLefts(sa, sb) ==
    (sa.left_root # Null /\ sb.left_root # Null) =>
        /\ operator_equal(sa, sb) <=> SameLefts(sa, sb)
        /\ operator_equal(sb, sa) <=> SameLefts(sa, sb)

(* C21 -- Equality compares Left sequences only: for containers A and B    *)
(* that each hold a pair, A == B is true exactly when the sizes are equal  *)
(* and the ascending Left values are pairwise equal, whatever the Right    *)
(* values; checked on the two containers as they are and as they are after *)
(* one more insert into either.                                            *)
C21_EqualityComparesLefts ==
    (bm["A"].constructed /\ bm["B"].constructed) =>
        /\ EqualIsSameLefts(State("A"), State("B"))
        /\ \A l \in LeftVals, r \in RightVals :
             /\ EqualIsSameLefts(Seen(insert_by_values(State("B"), l, r).s, "A"),
                                 insert_by_values(State("B"), l, r).s)
             /\ EqualIsSameLefts(insert_by_values(State("A"), l, r).s,
                                 Seen(insert_by_values(State("A"), l, r).s, "B"))

(* A holds two pairs and B one; an insert gives B the Left values of A     *)
(* with other Right values, and the two compare equal                      *)
C21_Witness ==
    /\ bm["A"].constructed /\ bm["B"].constructed
    /\ bm["A"].elements_count = 2 /\ bm["B"].elements_count = 1
    /\ \E l \in LeftVals, r \in RightVals :
         LET b == insert_by_values(State("B"), l, r).s IN
         /\ b.elements_count = 2
         /\ ValuesOf(b, "left") = Lefts("A")
         /\ ValuesOf(b, "right") \cap Rights("A") = {}
         /\ operator_equal(Seen(b, "A"), b)
    /\ ~operator_equal(State("A"), State("B"))

(* the engine's find on side d of container c, for key x *)
FindOn(c, d, x) ==
    find(d, Tree(State(c), d), Value(State(c), d), Root(State(c), d), x)

(* no record of c has a value of side d strictly between a and b *)
Adjacent(c, d, a, b) ==
    \A m \in Live(c) :
        LET y == Value(State(c), d)[m]
        IN ~(compare(d, a, y) /\ compare(d, y, b)) /\ ~(compare(d, b, y) /\ compare(d, y, a))

(* C22 -- find postcondition: find(root, key) returns null exactly when    *)
(* the tree is empty; otherwise the record returned is at the root of a    *)
(* well-formed tree over the same records (its parent is null, all the     *)
(* others are below it), and it holds key if a record does, else the value *)
(* just below or just above key.                                           *)
C22_FindPostcondition ==
    \A c \in Containers : bm[c].constructed =>
        \A d \in Descriptors : \A x \in KeysOf(d) :
            LET f == FindOn(c, d, x)
                v == Value(State(c), d)
            IN /\ f.node = Null <=> Root(State(c), d) = Null
               /\ f.node # Null =>
                    /\ f.tree.parent[f.node] = Null
                    /\ Subtree(f.tree, f.node) = Live(c)
                    /\ WellFormed(d, f.tree, v, f.node)
                    /\ x \in ValuesOf(State(c), d) => v[f.node] = x
                    /\ x \notin ValuesOf(State(c), d) =>
                         /\ v[f.node] # x
                         /\ Adjacent(c, d, v[f.node], x)

(* three records; find of an absent Left key brings up the record just     *)
(* above it from two links below the root, and find of an absent Right key *)
(* brings up the record just below it                                      *)
C22_Witness ==
    /\ bm["A"].elements_count = 3
    /\ \E x \in LeftVals \ Lefts("A") :
         LET f == FindOn("A", "left", x) IN
         /\ f.node # Null /\ compare("left", x, left_value[f.node])
         /\ left_tree_data.parent[f.node] # Null
         /\ left_tree_data.parent[left_tree_data.parent[f.node]] # Null
         /\ \E m \in Live("A") : compare("left", left_value[m], x)
    /\ \E x \in RightVals \ Rights("A") :
         LET f == FindOn("A", "right", x) IN
         /\ f.node # Null /\ compare("right", right_value[f.node], x)
         /\ f.node # bm["A"].right_root
         /\ \E m \in Live("A") : compare("right", x, right_value[m])

(* the memory in which erase_element tests its condition and, if it holds, *)
(* invokes erase_root: after the find and the splay                        *)
AtEraseElement(s, d1, d2, key) == splay_second(find_root(s, d1, key), d1, d2)

(* the memory in which erase_left(it) / erase_right(it) invokes erase_root *)
AtEraseIterator(s, n) == splay_root(splay_root(s, "left", n), "right", n)

(* erase_root is invoked in memory s for record n: both roots are n, and   *)
(* n is the one record that leaves either tree and the heap                *)
Detach(s, d1, d2, n) ==
    /\ n # Null
    /\ s.left_root = n /\ s.right_root = n
    /\ NodesOf(erase_root(s, d1, d2), "left") = NodesOf(s, "left") \ {n}
    /\ NodesOf(erase_root(s, d1, d2), "right") = NodesOf(s, "right") \ {n}
    /\ erase_root(s, d1, d2).heap = s.heap \ {n}
    /\ n \in s.heap
    /\ erase_root(s, d1, d2).elements_count = s.elements_count - 1

(* erase_element(key) on side d1 in memory s: if it invokes erase_root,    *)
(* it does so for the record that holds key                                *)
DetachByKey(s, d1, d2, key) ==
    (Root(AtEraseElement(s, d1, d2, key), d1) # Null
       /\ Value(s, d1)[Root(AtEraseElement(s, d1, d2, key), d1)] = key) =>
        /\ Detach(AtEraseElement(s, d1, d2, key), d1, d2,
                  Root(AtEraseElement(s, d1, d2, key), d1))
        /\ \A m \in LiveOf(s) :
             Value(s, d1)[m] = key => m = Root(AtEraseElement(s, d1, d2, key), d1)

(* C23 -- Both roots agree at detach time: whenever erase_root is invoked, *)
(* from erase by key or by cursor on either side or from the erase of the  *)
(* default value inside at_or_default, left_root and right_root are the    *)
(* same record, the one being erased, and it is the only record removed    *)
(* from either tree and the only one freed.                                *)
C23_RootsAgreeAtDetach ==
    \A c \in Containers : bm[c].constructed =>
        \A d \in Descriptors :
            /\ \A k \in KeysOf(d) :
                 /\ DetachByKey(State(c), d, flip_descriptor(d), k)
                 /\ k \notin ValuesOf(State(c), d) =>
                      DetachByKey(find_root(State(c), d, k), flip_descriptor(d), d,
                                  default_value(flip_descriptor(d)))
            /\ \A n \in Live(c) :
                 Detach(AtEraseIterator(State(c), n), d, flip_descriptor(d), n)

(* four records; erase_right of a held key detaches a record that was at   *)
(* neither root and has different parents in the two trees                 *)
C23_Witness ==
    \E n \in Live("A") :
        LET s1 == AtEraseElement(State("A"), "right", "left", right_value[n]) IN
        /\ bm["A"].elements_count = 4
        /\ n # bm["A"].left_root /\ n # bm["A"].right_root
        /\ left_tree_data.parent[n] # right_tree_data.parent[n]
        /\ s1.left_root = n /\ s1.right_root = n
        /\ n \notin erase_root(s1, "right", "left").heap

(* C24 -- Empty-container traversal is well defined: on a container with   *)
(* no records, freshly constructed or emptied by erases, begin_left() and  *)
(* begin_right() follow no link of a null record and return a cursor equal *)
(* to the end cursor of their side.                                        *)
C24_EmptyTraversalDefined ==
    \A c \in Containers : (bm[c].constructed /\ bm[c].elements_count = 0) =>
        \A d \in Descriptors : \A o \in begin_outcomes(State(c), d) :
            /\ ~o.null_dereference
            /\ ~o.fault
            /\ iterator_equal(basic_iterator(c, d, o.node), basic_iterator(c, d, Null))

(* a cursor of side d at record p of container c, taken in the current     *)
(* state, still designates p in memory s: p is allocated and in both       *)
(* trees, the cursor and its flip() dereference to p's values, and         *)
(* operator++ leads to the record with the next greater value of side d in *)
(* s, or to end                                                            *)
StableCursor(s, c, d, p) ==
    /\ p \in s.heap
    /\ p \in NodesOf(s, "left") /\ p \in NodesOf(s, "right")
    /\ Value(s, d)[basic_iterator(c, d, p).node] = Value(State(c), d)[p]
    /\ flip(basic_iterator(c, d, p)).node = p
    /\ Value(s, flip_descriptor(d))[flip(basic_iterator(c, d, p)).node]
         = Value(State(c), flip_descriptor(d))[p]
    /\ next(Tree(s, d), p)
         = FirstWith(s, d, {x \in KeysOf(d) : compare(d, Value(s, d)[p], x)})

(* every cursor at a record of c other than those in gone is stable in s *)
StableCursors(s, c, gone) ==
    \A d \in Descriptors, p \in Live(c) \ gone : StableCursor(s, c, d, p)

(* the records at_or_default(k) on side d erases: the holder of the other  *)
(* side's default when k is absent                                         *)
DefaultHolder(c, d, k) ==
    IF k \in ValuesOf(State(c), d) THEN {}
    ELSE {n \in Live(c) :
            Value(State(c), flip_descriptor(d))[n] = default_value(flip_descriptor(d))}

(* C25 -- Cursor stability: a left or right cursor at a held record p      *)
(* keeps designating p across inserts, lookups, bound queries and erases   *)
(* of other records: it still dereferences to p's value, its flip() still  *)
(* designates p, and advancing it yields p's in-order successor in the     *)
(* current content, or end.                                                *)
C25_CursorStability ==
    \A c \in Containers : bm[c].constructed =>
        /\ StableCursors(State(c), c, {})
        /\ \A l \in LeftVals, r \in RightVals :
             StableCursors(insert_by_values(State(c), l, r).s, c, {})
        /\ \A d \in Descriptors : \A k \in KeysOf(d) :
             /\ StableCursors(find_element(State(c), d, k).s, c, {})
             /\ StableCursors(lower_bound(State(c), d, k).s, c, {})
             /\ StableCursors(upper_bound(State(c), d, k).s, c, {})
             /\ StableCursors(at_element(State(c), d, flip_descriptor(d), k).s, c, {})
             /\ StableCursors(at_element_or_default(State(c), d, flip_descriptor(d), k).s,
                              c, DefaultHolder(c, d, k))
             /\ StableCursors(erase_key(State(c), d, k).s, c,
                              {n \in Live(c) : Value(State(c), d)[n] = k})
        /\ \A d \in Descriptors, n \in Live(c) :
             /\ StableCursors(erase_iterator(State(c), d, n).s, c, {n})
             /\ \A last \in Advance(Tree(State(c), d), n) :
                  StableCursors(erase_range(State(c), d, n, last).s, c,
                                Range(Tree(State(c), d), n, last))

(* four records; a cursor at a record that is at neither root and is not   *)
(* the last on its side survives the erase of its successor, after which   *)
(* advancing it yields the record that followed the erased one             *)
C25_Witness ==
    \E p \in Live("A"), q \in Live("A") :
        LET s2 == erase_iterator(State("A"), "left", q).s IN
        /\ bm["A"].elements_count = 4
        /\ p # bm["A"].left_root /\ p # bm["A"].right_root
        /\ q = next(left_tree_data, p)
        /\ next(left_tree_data, q) # Null
        /\ s2.left_value[p] = left_value[p]
        /\ next(s2.left_tree_data, p) = next(left_tree_data, q)
        /\ s2.left_tree_data.parent[p] # left_tree_data.parent[p]

====
